---- MODULE Spec2Model ----
(***************************************************************************)
(* Model of nexus/co2sensorNexus.py: the MQTT message callback             *)
(* (on_message, sendConfig, saveConfig), the reporting loop of main and    *)
(* the HTTP forwarding of sendUbidotsPayload, which share the dictionary   *)
(* connectedDevices and the lock connectedLock.                            *)
(*                                                                         *)
(* Execution contexts: "annc" handles the messages of CO2S/announce and    *)
(* "data" those of CO2S/data (each topic is delivered serially, the two    *)
(* topics are not serialised with each other), "main" is the main thread   *)
(* running the reporting loop.                                             *)
(***************************************************************************)
EXTENDS Integers, Sequences, FiniteSets, TLC

\* ---------------------------------------------------------------- bounds
\* Announce frames delivered in a run.
MaxAnnounce == 2
\* Data frames delivered in a run.
MaxData == 2
\* Report intervals that elapse in a run.
MaxTicks == 2

\* ------------------------------------------------------------- constants
CONFIG_TOPIC == "CO2S/conf"

\* struct.Struct("<16s").size
AnnounceSize == 16
\* struct.Struct("<16s2h").size
DataSize == 20
\* the last value of attempts for which the POST loop still runs
LastRetryIndex == 5
\* the status the POST loop starts from, and the first failing status
StatusFailFrom == 400

\* --------------------------------------------------------------- devices
\* Identities are the 16 bytes of the UUID.
D1 == [i \in 1..16 |-> 17]
D2 == [i \in 1..16 |-> 16 * i - 1]
Devices == {D1, D2}

\* (co2, temp) pairs a Data frame may carry (signed 16-bit fields).
Samples == {<<700, 22>>, <<-701, -25>>}

\* Status codes the HTTP server may answer.
Statuses == {200, 399, 400}

\* ------------------------------------------------ uuid.UUID and str(UUID)
HexDigits == <<"0", "1", "2", "3", "4", "5", "6", "7",
               "8", "9", "a", "b", "c", "d", "e", "f">>

HexByte(b) == <<HexDigits[(b \div 16) + 1], HexDigits[(b % 16) + 1]>>

RECURSIVE HexBytes(_)
HexBytes(bs) ==
    IF bs = <<>> THEN <<>> ELSE HexByte(Head(bs)) \o HexBytes(Tail(bs))

\* str(uuid.UUID(bytes=u)): 8-4-4-4-12 lower-case hex digits.
UUIDStr(u) ==
    HexBytes(SubSeq(u, 1, 4)) \o <<"-">> \o HexBytes(SubSeq(u, 5, 6)) \o <<"-">>
      \o HexBytes(SubSeq(u, 7, 8)) \o <<"-">> \o HexBytes(SubSeq(u, 9, 10))
      \o <<"-">> \o HexBytes(SubSeq(u, 11, 16))

\* str(device) for the identities of the model, computed once.
DeviceStr == [u \in Devices |-> UUIDStr(u)]

\* s[24:] of a Python string held as a sequence of characters.
TopicSuffixFrom23(s) == SubSeq(s, 24, Len(s))
TopicSuffix(s) == SubSeq(s, 25, Len(s))

\* CONFIG_TOPIC + "/" + str(device)[24:]
ConfigTopicOf(u) == <<CONFIG_TOPIC, "/">> \o TopicSuffix(DeviceStr[u])

\* b'aaaaaaa'
ResetPayload == <<97, 97, 97, 97, 97, 97, 97>>

\* ------------------------------------------- Python dict (insertion order)
\* A dict is the sequence of its items [key, val] in insertion order.
DictHas(d, k) == \E i \in 1..Len(d) : d[i].key = k

DictIndex(d, k) == CHOOSE i \in 1..Len(d) : d[i].key = k

DictGet(d, k) == d[DictIndex(d, k)].val

\* d[k] = v: an existing key keeps its place, a new key goes last.
DictSet(d, k, v) ==
    IF DictHas(d, k)
    THEN [d EXCEPT ![DictIndex(d, k)] = [key |-> k, val |-> v]]
    ELSE Append(d, [key |-> k, val |-> v])

\* del d[k]
DictDel(d, k) == SelectSeq(d, LAMBDA e : e.key # k)

\* -------------------------------------------------------- accumulators
\* [0, 0, 0] # CO2, temp, times   (line 58)
NewSessionCounted == <<0, 0, 1>>
NewSession == <<0, 0, 0>>

\* [0, 0, 0] of the reporting loop (line 263)
ResetData == <<0, 0, 0>>

AddSampleNoCount(acc, co2, temp) == <<acc[1] + co2, acc[2] + temp, acc[3]>>

\* lines 84-86
AddSample(acc, co2, temp) == <<acc[1] + co2, acc[2] + temp, acc[3] + 1>>

\* deviceData[2] == 0 (line 255)
SkipNever(acc) == FALSE
SkipDevice(acc) == acc[3] = 0

\* Python's a // b for b > 0: the floor of a / b.
TruncDiv(a, b) == IF a >= 0 THEN a \div b ELSE -((-a) \div b)
FloorDiv(a, b) == a \div b

\* ------------------------------------------------------- configuration
\* loadConfigDefault
DefaultGlobalConf ==
    [measureEachMsec |-> 2000, sendAfterMeasures |-> 10,
     greenLEDThreshold |-> 700, yellowLEDThreshold |-> 800,
     orangeLEDThreshold |-> 1000, makeBuzzEverySec |-> 300,
     enableLEDEverySec |-> 5]

\* A configuration an operator edited: a period too long for an unsigned
\* short, and the buzzer disabled.
EditedGlobalConf ==
    [DefaultGlobalConf EXCEPT !.measureEachMsec = 70000, !.makeBuzzEverySec = -1]

NewDeviceConfOwn(n, global) ==
    [name |-> <<"Device-", n>>, usesGlobalConfig |-> FALSE, apiName |-> "XXXX",
     config |-> global]

\* The entry sendConfig generates for the n-th device.
NewDeviceConf(n, global) ==
    [name |-> <<"Device-", n>>, usesGlobalConfig |-> TRUE, apiName |-> "XXXX",
     config |-> global]

\* The configuration documents loadConfig may return: the defaults (file
\* missing), and a file of an earlier run with an edited global section in
\* which D2 has its own configuration.
ConfigFiles ==
    { [globalConf |-> DefaultGlobalConf, devices |-> <<>>],
      [globalConf |-> EditedGlobalConf,
       devices |-> << [key |-> UUIDStr(D2),
                       val |-> [name |-> <<"Device-", 0>>,
                                usesGlobalConfig |-> FALSE,
                                apiName |-> "sensor-b",
                                config |-> [DefaultGlobalConf EXCEPT
                                              !.sendAfterMeasures = 20]]] >>] }

PackHWrap(v) == <<v % 256, (v % 65536) \div 256>>

\* struct "<5H2h": an unsigned short, little-endian; struct.error out of range.
PackH(v) == IF v >= 0 /\ v <= 65535 THEN <<v % 256, v \div 256>> ELSE <<"error">>

\* a signed short, little-endian two's complement; struct.error out of range.
PackSh(v) ==
    IF v >= -32768 /\ v <= 32767
    THEN <<(v + 65536) % 256, ((v + 65536) % 65536) \div 256>>
    ELSE <<"error">>

\* configStruct.pack(...) of lines 120-122, or <<"error">> when it raises.
ConfigPack(c) ==
    IF \/ \E v \in {c.measureEachMsec, c.sendAfterMeasures,
                     c.greenLEDThreshold, c.yellowLEDThreshold,
                     c.orangeLEDThreshold} : PackH(v) = <<"error">>
       \/ \E v \in {c.makeBuzzEverySec, c.enableLEDEverySec} :
              PackSh(v) = <<"error">>
    THEN <<"error">>
    ELSE PackH(c.measureEachMsec) \o PackH(c.sendAfterMeasures)
           \o PackH(c.greenLEDThreshold) \o PackH(c.yellowLEDThreshold)
           \o PackH(c.orangeLEDThreshold) \o PackSh(c.makeBuzzEverySec)
           \o PackSh(c.enableLEDEverySec)

\* ------------------------------------------------------------------ state
VARIABLES
    connectedDevices,  \* the dict connectedDevices: UUID -> [CO2, temp, times]
    connectedLock,     \* "free", or the context holding connectedLock
    configData,        \* configData["globalConf"] and configData["devices"]
    pc,                \* where each context is in its code
    msg,               \* the message each callback invocation is handling
    cBinaryData,       \* sendConfig's packed frame
    io,                \* what each callback invocation has written so far
    rIdx,              \* position of "for device in connectedDevices"
    device,            \* the loop variable of that for
    co2Mean, tempMean, \* the means of the device being reported
    status, attempts,  \* sendUbidotsPayload's loop variables
    result,            \* what sendUbidotsPayload returned last
    responses,         \* the status codes the current call has received
    meanOver,          \* the accumulator the current means were computed from
    window,            \* per identity: what was recorded since its last reset
    seen,              \* identities of the Announce frames delivered so far
    processed,         \* identities whose Announce callback has returned
    aSnap,             \* connectedDevices when the Announce callback locked
    cSnap,             \* configData["devices"] at that moment
    nAnn, nData, nTicks

vars == <<connectedDevices, connectedLock, configData, pc, msg, cBinaryData,
          io, rIdx, device, co2Mean, tempMean, status, attempts, result, responses,
          meanOver, window, seen, processed, aSnap, cSnap, nAnn, nData,
          nTicks>>

reporterVars == <<rIdx, device, co2Mean, tempMean, status, attempts, result,
                  responses, meanOver>>
countVars == <<nAnn, nData, nTicks>>
snapVars == <<aSnap, cSnap>>

Ctx == {"annc", "data", "main"}

NoMsg == [len |-> 0, id |-> <<>>, co2 |-> 0, temp |-> 0, late |-> FALSE,
          stale |-> FALSE]

Zero == <<0, 0, 0>>

Init ==
    /\ connectedDevices = <<>>
    /\ connectedLock = "free"
    /\ configData \in ConfigFiles
    /\ pc = [c \in Ctx |-> IF c = "main" THEN "r_wait" ELSE "idle"]
    /\ msg = [c \in {"annc", "data"} |-> NoMsg]
    /\ cBinaryData = <<>>
    /\ io = [c \in {"annc", "data"} |-> <<>>]
    /\ rIdx = 0
    /\ device = <<>>
    /\ co2Mean = 0
    /\ tempMean = 0
    /\ status = StatusFailFrom
    /\ attempts = 0
    /\ result = "none"
    /\ responses = <<>>
    /\ meanOver = Zero
    /\ window = [d \in Devices |-> Zero]
    /\ seen = {}
    /\ processed = {}
    /\ aSnap = <<>>
    /\ cSnap = <<>>
    /\ nAnn = 0
    /\ nData = 0
    /\ nTicks = 0

\* The process runs until an exception ends the main thread; the transport's
\* thread is a daemon thread and ends with it.
Running == pc["main"] # "r_crashed"

At(c, l) == Running /\ pc[c] = l

\* connectedLock.acquire() of a "with connectedLock:" succeeds when it is free.
CanAcquireAlways == TRUE
CanAcquire == connectedLock = "free"

\* --------------------------------------- on_message, topic CO2S/announce
\* The transport invokes on_message with a payload of 16 bytes (an identity)
\* or of another size.
DeliverAnnounce ==
    /\ At("annc", "idle")
    /\ nAnn < MaxAnnounce
    /\ \E m \in [len : {AnnounceSize}, id : Devices, co2 : {0}, temp : {0},
                   late : {FALSE}, stale : {FALSE}]
              \cup {[len |-> DataSize, id |-> D1, co2 |-> 0, temp |-> 0,
                      late |-> FALSE, stale |-> FALSE]} :
         /\ msg' = [msg EXCEPT !["annc"] = m]
         /\ seen' = IF m.len = AnnounceSize THEN seen \cup {m.id} ELSE seen
    /\ nAnn' = nAnn + 1
    /\ pc' = [pc EXCEPT !["annc"] = "a_lock"]
    /\ UNCHANGED <<connectedDevices, connectedLock, configData, cBinaryData, io,
                   reporterVars, window, processed, snapVars, nData, nTicks>>

\* lines 50-52: the size assertion, and unpack's own check of the size
AnnounceSizeAny(m) == TRUE
AnnounceSizeOk(m) == m.len = AnnounceSize

\* lines 47-54: the lock is taken, then the size assertion (its failure is
\* caught at line 62) and "newDevice in connectedDevices"
AnnounceAcquire ==
    /\ At("annc", "a_lock")
    /\ CanAcquire
    /\ connectedLock' = "annc"
    /\ aSnap' = connectedDevices
    /\ cSnap' = configData.devices
    /\ pc' = [pc EXCEPT !["annc"] =
                IF ~AnnounceSizeOk(msg["annc"]) THEN "a_release"
                ELSE IF DictHas(connectedDevices, msg["annc"].id) THEN "a_del"
                ELSE "a_init"]
    /\ UNCHANGED <<connectedDevices, configData, msg, cBinaryData, io,
                   reporterVars, window, seen, processed, countVars>>

\* line 56
AnnounceDel ==
    /\ At("annc", "a_del")
    /\ connectedDevices' = DictDel(connectedDevices, msg["annc"].id)
    /\ pc' = [pc EXCEPT !["annc"] = "a_init"]
    /\ UNCHANGED <<connectedLock, configData, msg, cBinaryData, io,
                   reporterVars, window, seen, processed, snapVars, countVars>>

\* line 105: "not uuidStr in configData['devices']"
NeedsConfAlways(conf, uuidStr) == TRUE
NeedsConf(conf, uuidStr) == ~DictHas(conf.devices, uuidStr)

\* line 117
UseConf(conf, uuidStr) ==
    IF DictGet(conf.devices, uuidStr).usesGlobalConfig
    THEN conf.globalConf
    ELSE DictGet(conf.devices, uuidStr).config

WithDeviceConfNone(conf, uuidStr) == conf

\* lines 107-112: configData with the generated entry of the device
WithDeviceConf(conf, uuidStr) ==
    [conf EXCEPT !.devices =
       DictSet(@, uuidStr, NewDeviceConf(Len(conf.devices), conf.globalConf))]

\* lines 117-122: the packed configuration of the device; <<"error">> for a
\* struct.error, <<"keyerror">> when the device has no entry (line 117)
PackFor(conf, uuidStr) ==
    IF ~DictHas(conf.devices, uuidStr) THEN <<"keyerror">>
    ELSE ConfigPack(UseConf(conf, uuidStr))

\* lines 117-127: where sendConfig goes after packing; a struct.error is
\* caught at line 125 and the publish skipped, a KeyError goes up to line 62
AfterPack(packed) ==
    IF packed \in {<<"error">>, <<"keyerror">>} THEN "a_release" ELSE "a_publish"

PackedOrNone(packed) ==
    IF packed \in {<<"error">>, <<"keyerror">>} THEN <<>> ELSE packed

\* lines 58-60: the session is initialised
AnnounceInit ==
    /\ At("annc", "a_init")
    /\ connectedDevices' = DictSet(connectedDevices, msg["annc"].id, NewSession)
    /\ window' = [window EXCEPT ![msg["annc"].id] = Zero]
    /\ pc' = [pc EXCEPT !["annc"] = "a_conf"]
    /\ UNCHANGED <<connectedLock, configData, msg, cBinaryData, io,
                   reporterVars, seen, processed, snapVars, countVars>>

\* line 61 and sendConfig up to its first write: the configuration of a new
\* device is generated (lines 104-113, to be saved next), that of a known
\* device packed (lines 117-122)
SendConfigCreate ==
    /\ At("annc", "a_conf")
    /\ LET uuidStr == DeviceStr[msg["annc"].id]
           packed == PackFor(configData, uuidStr)
       IN  IF NeedsConf(configData, uuidStr)
           THEN /\ configData' = WithDeviceConf(configData, uuidStr)
                /\ pc' = [pc EXCEPT !["annc"] = "a_save"]
                /\ UNCHANGED cBinaryData
           ELSE /\ UNCHANGED configData
                /\ pc' = [pc EXCEPT !["annc"] = AfterPack(packed)]
                /\ cBinaryData' = PackedOrNone(packed)
    /\ UNCHANGED <<connectedDevices, connectedLock, msg, io, reporterVars,
                   window, seen, processed, snapVars, countVars>>

\* line 115, saveConfig (lines 130-137): the write succeeds, or fails and
\* the failure is printed; then the configuration is packed (lines 117-122)
SaveConfig ==
    /\ At("annc", "a_save")
    /\ \E ok \in BOOLEAN :
         io' = [io EXCEPT !["annc"] =
                  Append(@, [op |-> "save", ok |-> ok, topic |-> <<>>,
                             payload |-> <<>>])]
    /\ LET packed == PackFor(configData, DeviceStr[msg["annc"].id])
       IN  /\ pc' = [pc EXCEPT !["annc"] = AfterPack(packed)]
           /\ cBinaryData' = PackedOrNone(packed)
    /\ UNCHANGED <<connectedDevices, connectedLock, configData, msg,
                   reporterVars, window, seen, processed, snapVars, countVars>>

\* lines 123-124: sleep(2), then the publish
SendConfigPublish ==
    /\ At("annc", "a_publish")
    /\ io' = [io EXCEPT !["annc"] =
                Append(@, [op |-> "publish", ok |-> TRUE,
                           topic |-> ConfigTopicOf(msg["annc"].id),
                           payload |-> cBinaryData])]
    /\ pc' = [pc EXCEPT !["annc"] = "a_release"]
    /\ UNCHANGED <<connectedDevices, connectedLock, configData, msg,
                   cBinaryData, reporterVars, window, seen, processed, snapVars,
                   countVars>>

\* A Data callback that found the session of identity d at line 76 and has
\* not yet recorded its sample.
DataInFlightFor(d) == pc["data"] = "d_lock" /\ msg["data"].id = d

AnnounceReleaseKeepsLock ==
    /\ At("annc", "a_release")
    /\ processed' = IF msg["annc"].len = AnnounceSize
                    THEN processed \cup {msg["annc"].id} ELSE processed
    /\ pc' = [pc EXCEPT !["annc"] = "idle"]
    /\ msg' = [msg EXCEPT !["annc"] = NoMsg]
    /\ io' = [io EXCEPT !["annc"] = <<>>]
    /\ cBinaryData' = <<>>
    /\ aSnap' = <<>>
    /\ cSnap' = <<>>
    /\ UNCHANGED <<connectedDevices, connectedLock, configData, reporterVars,
                   window, seen, countVars>>

\* the end of "with connectedLock:" (also reached through the except of
\* line 62), and on_message returns. stale marks the Data frame whose
\* callback passed line 76 before this re-announcement of its identity (the
\* identity had a session when the callback locked) was done.
AnnounceRelease ==
    /\ At("annc", "a_release")
    /\ connectedLock' = "free"
    /\ processed' = IF msg["annc"].len = AnnounceSize
                    THEN processed \cup {msg["annc"].id} ELSE processed
    /\ pc' = [pc EXCEPT !["annc"] = "idle"]
    /\ msg' = [msg EXCEPT
                 !["annc"] = NoMsg,
                 !["data"].stale =
                     @ \/ ( /\ msg["annc"].len = AnnounceSize
                            /\ DictHas(aSnap, msg["annc"].id)
                            /\ DataInFlightFor(msg["annc"].id) )]
    /\ io' = [io EXCEPT !["annc"] = <<>>]
    /\ cBinaryData' = <<>>
    /\ aSnap' = <<>>
    /\ cSnap' = <<>>
    /\ UNCHANGED <<connectedDevices, configData, reporterVars, window, seen,
                   countVars>>

\* ------------------------------------------- on_message, topic CO2S/data
\* The transport invokes on_message with a payload of 20 bytes (identity,
\* co2, temp), lines 70-74. late: an Announce callback for the identity had
\* returned before this delivery.
DeliverData ==
    /\ At("data", "idle")
    /\ nData < MaxData
    /\ \E d \in Devices, s \in Samples :
         msg' = [msg EXCEPT !["data"] =
                   [len |-> DataSize, id |-> d, co2 |-> s[1], temp |-> s[2],
                    late |-> d \in processed, stale |-> FALSE]]
    /\ nData' = nData + 1
    /\ pc' = [pc EXCEPT !["data"] = "d_check"]
    /\ UNCHANGED <<connectedDevices, connectedLock, configData, cBinaryData, io,
                   reporterVars, window, seen, processed, snapVars, nAnn, nTicks>>

\* A payload of another size: the assertion of line 70 fails, the exception
\* is caught at line 87 and on_message returns.
DeliverBadData ==
    /\ At("data", "idle")
    /\ nData < MaxData
    /\ nData' = nData + 1
    /\ UNCHANGED <<connectedDevices, connectedLock, configData, pc, msg,
                   cBinaryData, io, reporterVars, window, seen, processed,
                   snapVars, nAnn, nTicks>>

\* line 76: "not device in connectedDevices", read without the lock
DataCheck ==
    /\ At("data", "d_check")
    /\ pc' = [pc EXCEPT !["data"] =
                IF ~DictHas(connectedDevices, msg["data"].id)
                THEN "d_publish" ELSE "d_lock"]
    /\ UNCHANGED <<connectedDevices, connectedLock, configData, msg,
                   cBinaryData, io, reporterVars, window, seen, processed,
                   snapVars, countVars>>

\* lines 78-79: sleep(2), then the Reset-request
DataPublishReset ==
    /\ At("data", "d_publish")
    /\ io' = [io EXCEPT !["data"] =
                Append(@, [op |-> "publish", ok |-> TRUE,
                           topic |-> ConfigTopicOf(msg["data"].id),
                           payload |-> ResetPayload])]
    /\ pc' = [pc EXCEPT !["data"] = "d_ret"]
    /\ UNCHANGED <<connectedDevices, connectedLock, configData, msg,
                   cBinaryData, reporterVars, window, seen, processed, snapVars,
                   countVars>>

\* line 82
DataAcquire ==
    /\ At("data", "d_lock")
    /\ CanAcquire
    /\ connectedLock' = "data"
    /\ pc' = [pc EXCEPT !["data"] = "d_add"]
    /\ UNCHANGED <<connectedDevices, configData, msg, cBinaryData, io,
                   reporterVars, window, seen, processed, snapVars, countVars>>

\* lines 83-86, the end of "with connectedLock:" and the return of
\* on_message (a KeyError leaves the with block and is caught at line 87)
DataAdd ==
    /\ At("data", "d_add")
    /\ LET m == msg["data"]
       IN  IF DictHas(connectedDevices, m.id)
           THEN /\ connectedDevices' =
                     DictSet(connectedDevices, m.id,
                             AddSample(DictGet(connectedDevices, m.id),
                                       m.co2, m.temp))
                /\ window' = [window EXCEPT ![m.id] =
                                <<@[1] + m.co2, @[2] + m.temp, @[3] + 1>>]
           ELSE UNCHANGED <<connectedDevices, window>>
    /\ connectedLock' = "free"
    /\ pc' = [pc EXCEPT !["data"] = "idle"]
    /\ msg' = [msg EXCEPT !["data"] = NoMsg]
    /\ UNCHANGED <<configData, cBinaryData, io, reporterVars, seen, processed,
                   snapVars, countVars>>

\* on_message returns after the Reset-request
DataReturn ==
    /\ At("data", "d_ret")
    /\ pc' = [pc EXCEPT !["data"] = "idle"]
    /\ msg' = [msg EXCEPT !["data"] = NoMsg]
    /\ io' = [io EXCEPT !["data"] = <<>>]
    /\ UNCHANGED <<connectedDevices, connectedLock, configData, cBinaryData,
                   reporterVars, window, seen, processed, snapVars, countVars>>

\* ------------------------------------------------ main: the reporting loop
\* lines 247-250: reportEverySeconds have passed since lastDataSent; with
\* len(connectedDevices) == 0, read without the lock, the tick ends here
ReporterTick ==
    /\ pc["main"] = "r_wait"
    /\ nTicks < MaxTicks
    /\ nTicks' = nTicks + 1
    /\ pc' = [pc EXCEPT !["main"] =
                IF Len(connectedDevices) = 0 THEN "r_wait" ELSE "r_lock"]
    /\ UNCHANGED <<connectedDevices, connectedLock, configData, msg,
                   cBinaryData, io, reporterVars, window, seen, processed,
                   snapVars, nAnn, nData>>

\* line 252
ReporterAcquire ==
    /\ pc["main"] = "r_lock"
    /\ CanAcquire
    /\ connectedLock' = "main"
    /\ rIdx' = 1
    /\ pc' = [pc EXCEPT !["main"] = "r_iter"]
    /\ UNCHANGED <<connectedDevices, configData, msg, cBinaryData, io, device,
                   co2Mean, tempMean, status, attempts, result, responses,
                   meanOver, window, seen, processed, snapVars, countVars>>

\* lines 253-261: the next device of the for loop; a device without samples
\* is skipped, for the others the means are computed and sendUbidotsPayload is
\* entered (lines 195-196). An exception (ZeroDivisionError at line 258,
\* KeyError at line 261) leaves the with block and ends the main thread.
ReporterIter ==
    /\ pc["main"] = "r_iter"
    /\ rIdx <= Len(connectedDevices)
    /\ LET dev == connectedDevices[rIdx].key
           deviceData == connectedDevices[rIdx].val
       IN  IF SkipDevice(deviceData)
           THEN /\ rIdx' = rIdx + 1
                /\ UNCHANGED <<pc, connectedLock, device, co2Mean, tempMean,
                               status, attempts, result, responses, meanOver>>
           ELSE IF deviceData[3] = 0
           THEN /\ pc' = [pc EXCEPT !["main"] = "r_crashed"]
                /\ connectedLock' = "free"
                /\ device' = dev
                /\ result' = "raised"
                /\ UNCHANGED <<rIdx, co2Mean, tempMean, status, attempts,
                               responses, meanOver>>
           ELSE IF ~DictHas(configData.devices, DeviceStr[dev])
           THEN /\ pc' = [pc EXCEPT !["main"] = "r_crashed"]
                /\ connectedLock' = "free"
                /\ device' = dev
                /\ co2Mean' = FloorDiv(deviceData[1], deviceData[3])
                /\ tempMean' = FloorDiv(deviceData[2], deviceData[3])
                /\ meanOver' = deviceData
                /\ result' = "raised"
                /\ UNCHANGED <<rIdx, status, attempts, responses>>
           ELSE /\ device' = dev
                /\ co2Mean' = FloorDiv(deviceData[1], deviceData[3])
                /\ tempMean' = FloorDiv(deviceData[2], deviceData[3])
                /\ meanOver' = deviceData
                /\ pc' = [pc EXCEPT !["main"] = "r_post"]
                /\ UNCHANGED <<connectedLock, rIdx, status, attempts, result,
                               responses>>
    /\ UNCHANGED <<connectedDevices, configData, msg, cBinaryData, io, window,
                   seen, processed, snapVars, countVars>>

\* line 197: while status >= 400 and attempts <= 5
LoopCondShort(st, n) == st >= StatusFailFrom /\ n < LastRetryIndex
LoopCond(st, n) == st >= StatusFailFrom /\ n <= LastRetryIndex

\* lines 198-201: one POST, answered with a status code, and sleep(1)
ForwardAttempt ==
    /\ pc["main"] = "r_post"
    /\ LoopCond(status, attempts)
    /\ \E st \in Statuses :
         /\ status' = st
         /\ responses' = Append(responses, st)
    /\ attempts' = attempts + 1
    /\ UNCHANGED <<connectedDevices, connectedLock, configData, pc, msg,
                   cBinaryData, io, rIdx, device, co2Mean, tempMean, result,
                   meanOver, window, seen, processed, snapVars, countVars>>

\* line 198: requests.post raises (no connection, timeout); nothing on the
\* way up catches it, the with block releases the lock and the frame of
\* sendUbidotsPayload is gone
ForwardRaise ==
    /\ pc["main"] = "r_post"
    /\ LoopCond(status, attempts)
    /\ result' = "raised"
    /\ connectedLock' = "free"
    /\ pc' = [pc EXCEPT !["main"] = "r_crashed"]
    /\ status' = StatusFailFrom
    /\ attempts' = 0
    /\ responses' = <<>>
    /\ UNCHANGED <<connectedDevices, configData, msg, cBinaryData, io, rIdx,
                   device, co2Mean, tempMean, meanOver, window, seen,
                   processed, snapVars, countVars>>

\* lines 204-208: req.json() of the last response, then the return value
ForwardReturn ==
    /\ pc["main"] = "r_post"
    /\ ~LoopCond(status, attempts)
    /\ result' = IF status >= StatusFailFrom THEN "False" ELSE "True"
    /\ pc' = [pc EXCEPT !["main"] = "r_reset"]
    /\ UNCHANGED <<connectedDevices, connectedLock, configData, msg,
                   cBinaryData, io, rIdx, device, co2Mean, tempMean, status,
                   attempts, responses, meanOver, window, seen, processed,
                   snapVars, countVars>>

\* line 204: the body of the last response is not JSON and req.json() raises
ForwardBadBody ==
    /\ pc["main"] = "r_post"
    /\ ~LoopCond(status, attempts)
    /\ result' = "raised"
    /\ connectedLock' = "free"
    /\ pc' = [pc EXCEPT !["main"] = "r_crashed"]
    /\ status' = StatusFailFrom
    /\ attempts' = 0
    /\ responses' = <<>>
    /\ UNCHANGED <<connectedDevices, configData, msg, cBinaryData, io, rIdx,
                   device, co2Mean, tempMean, meanOver, window, seen,
                   processed, snapVars, countVars>>

ReporterResetIfOk ==
    /\ pc["main"] = "r_reset"
    /\ connectedDevices' = IF result = "False" THEN connectedDevices
                           ELSE DictSet(connectedDevices, device, ResetData)
    /\ window' = [window EXCEPT ![device] = Zero]
    /\ meanOver' = Zero
    /\ rIdx' = rIdx + 1
    /\ device' = <<>>
    /\ co2Mean' = 0
    /\ tempMean' = 0
    /\ status' = StatusFailFrom
    /\ attempts' = 0
    /\ responses' = <<>>
    /\ result' = "none"
    /\ pc' = [pc EXCEPT !["main"] = "r_iter"]
    /\ UNCHANGED <<connectedLock, configData, msg, cBinaryData, io, seen,
                   processed, snapVars, countVars>>

\* line 263; the locals of the iteration are dead from here on
ReporterReset ==
    /\ pc["main"] = "r_reset"
    /\ connectedDevices' = DictSet(connectedDevices, device, ResetData)
    /\ window' = [window EXCEPT ![device] = Zero]
    /\ meanOver' = Zero
    /\ rIdx' = rIdx + 1
    /\ device' = <<>>
    /\ co2Mean' = 0
    /\ tempMean' = 0
    /\ status' = StatusFailFrom
    /\ attempts' = 0
    /\ responses' = <<>>
    /\ result' = "none"
    /\ pc' = [pc EXCEPT !["main"] = "r_iter"]
    /\ UNCHANGED <<connectedLock, configData, msg, cBinaryData, io, seen,
                   processed, snapVars, countVars>>

\* the for loop is exhausted: the end of "with connectedLock:", line 264
ReporterRelease ==
    /\ pc["main"] = "r_iter"
    /\ rIdx > Len(connectedDevices)
    /\ connectedLock' = "free"
    /\ rIdx' = 0
    /\ pc' = [pc EXCEPT !["main"] = "r_wait"]
    /\ UNCHANGED <<connectedDevices, configData, msg, cBinaryData, io, device,
                   co2Mean, tempMean, status, attempts, result, responses,
                   meanOver, window, seen, processed, snapVars, countVars>>

\* ---------------------------------------------------------- specification
Next ==
    \/ DeliverAnnounce
    \/ AnnounceAcquire
    \/ AnnounceDel
    \/ AnnounceInit
    \/ SendConfigCreate
    \/ SaveConfig
    \/ SendConfigPublish
    \/ AnnounceRelease
    \/ DeliverData
    \/ DeliverBadData
    \/ DataCheck
    \/ DataPublishReset
    \/ DataAcquire
    \/ DataAdd
    \/ DataReturn
    \/ ReporterTick
    \/ ReporterAcquire
    \/ ReporterIter
    \/ ForwardAttempt
    \/ ForwardRaise
    \/ ForwardReturn
    \/ ForwardBadBody
    \/ ReporterReset
    \/ ReporterRelease

Spec == Init /\ [][Next]_vars

\* What the transport and the clock do: a message arrives, the report
\* interval elapses (line 247).
Arrival ==
    \/ DeliverAnnounce
    \/ DeliverData
    \/ DeliverBadData
    \/ ReporterTick

\* The steps of the callbacks and of the reporting loop when every
\* requests.post returns a response whose body is JSON.
ProgramStep ==
    \/ AnnounceAcquire
    \/ AnnounceDel
    \/ AnnounceInit
    \/ SendConfigCreate
    \/ SaveConfig
    \/ SendConfigPublish
    \/ AnnounceRelease
    \/ DataCheck
    \/ DataPublishReset
    \/ DataAcquire
    \/ DataAdd
    \/ DataReturn
    \/ ReporterAcquire
    \/ ReporterIter
    \/ ForwardAttempt
    \/ ForwardReturn
    \/ ReporterReset
    \/ ReporterRelease

LiveNext == Arrival \/ ProgramStep

\* The threads are scheduled and every sleep and HTTP request ends: as long
\* as some callback or the reporting loop can take a step, one is taken.
Fairness == WF_vars(ProgramStep)

FairSpec == Init /\ [][LiveNext]_vars /\ Fairness

\* ================================================================ claims
\* The reporter is between computing the means of d (line 258) and resetting
\* d (line 263), or ended there.
Mid(d) == device = d /\ meanOver # Zero

\* C1: no sample is lost or double-counted across the reset boundary. While
\* the reporter is between the means and the reset of a session, the samples
\* recorded since the session's last reset are exactly those the means were
\* computed from, so the reset discards nothing else; at any other time the
\* accumulator holds exactly the samples recorded since the last reset, so
\* nothing already reported is still in it.
C1_NoSampleLostOrDoubled ==
    \A i \in 1..Len(connectedDevices) :
        LET d == connectedDevices[i].key
            acc == connectedDevices[i].val
        IN  IF Mid(d)
            THEN window[d] = meanOver /\ acc = meanOver
            ELSE acc = window[d]

\* A Data callback waits for the lock with a sample of the session whose
\* means the reporter has just computed.
C1_Witness ==
    /\ pc["main"] = "r_post"
    /\ pc["data"] = "d_lock"
    /\ msg["data"].id = device
    /\ connectedLock = "main"

\* C2: every read and write of connectedDevices by a callback or by the
\* reporter is made while that context holds connectedLock (so never while
\* the other context holds it). The places: lines 56 and 58 (Announce), the
\* membership test of line 76 and lines 84-86 (Data), lines 253-263 (main).
C2_AccessUnderLock ==
    /\ pc["annc"] \in {"a_del", "a_init"} => connectedLock = "annc"
    /\ pc["data"] \in {"d_check", "d_add"} => connectedLock = "data"
    /\ pc["main"] \in {"r_iter", "r_reset"} => connectedLock = "main"

\* C3: no I/O under the lock. While a configuration file is written, a
\* Config frame or a Reset-request is delayed and published, or an HTTP
\* forward runs, the context doing it does not hold connectedLock.
C3_NoIOUnderLock ==
    /\ pc["annc"] \in {"a_save", "a_publish"} => connectedLock # "annc"
    /\ pc["data"] = "d_publish" => connectedLock # "data"
    /\ pc["main"] = "r_post" => connectedLock # "main"

\* C4: a Data frame leads to a Reset-request only when its identity has no
\* session, and is recorded otherwise: a frame delivered after an Announce
\* callback for its identity returned never takes the Reset-request branch,
\* and a frame that is recorded belongs to an announced identity.
C4_ResetOnlyIfUnknown ==
    /\ pc["data"] \in {"d_publish", "d_ret"} => ~msg["data"].late
    /\ pc["data"] \in {"d_lock", "d_add"} => msg["data"].id \in seen

\* C5: the means the reporter forwards are the floors of sum / N over the
\* N >= 1 samples recorded since the session's last reset (so a session with
\* nothing new yields no entry), and every session the loop has passed is
\* left at (0, 0, 0).
C5_FloorMeans ==
    /\ pc["main"] \in {"r_post", "r_reset"} =>
          LET w == window[device]
              n == w[3]
          IN  /\ n >= 1
              /\ co2Mean * n <= w[1] /\ w[1] < co2Mean * n + n
              /\ tempMean * n <= w[2] /\ w[2] < tempMean * n + n
    /\ pc["main"] = "r_iter" =>
          \A i \in 1..Len(connectedDevices) :
              i < rIdx => connectedDevices[i].val = Zero

\* The means of two samples with negative, odd sums.
C5_Witness ==
    /\ pc["main"] = "r_reset"
    /\ meanOver = <<-1, -3, 2>>
    /\ co2Mean = -1
    /\ tempMean = -2
    /\ nTicks = 2

\* A step of the reporter.
ReporterStep == pc'["main"] # pc["main"] \/ rIdx' # rIdx

\* C6: a session whose sampleCount is 0 is skipped: means exist only for a
\* positive count, and the reporter's step at such a session only moves on to
\* the next one, leaving the registry and the forwarding state as they were.
C6_ZeroCountSkipped ==
    /\ [](pc["main"] \in {"r_post", "r_reset"} => meanOver[3] > 0)
    /\ [][ ( /\ pc["main"] = "r_iter"
             /\ rIdx <= Len(connectedDevices)
             /\ connectedDevices[rIdx].val[3] = 0
             /\ ReporterStep )
           => ( /\ pc'["main"] = "r_iter"
                /\ rIdx' = rIdx + 1
                /\ connectedDevices' = connectedDevices
                /\ <<co2Mean, tempMean, meanOver, responses, attempts>>'
                     = <<co2Mean, tempMean, meanOver, responses, attempts>> )
       ]_vars

\* The loop has passed the only session, which never got a sample.
C6_Witness ==
    /\ pc["main"] = "r_iter"
    /\ nData = 0
    /\ Len(connectedDevices) = 1
    /\ rIdx = 2

\* The Announce callback is past line 58 for a well-formed frame.
Announced == msg["annc"].len = AnnounceSize
             /\ pc["annc"] \in {"a_conf", "a_save", "a_publish", "a_release"}

\* The items of a dict other than that of key k.
Others(d, k) == {d[i] : i \in {j \in 1..Len(d) : d[j].key # k}}

\* C7: after an Announce, first or repeated, the registry holds exactly one
\* session of the identity, its accumulator is (0, 0, 0), and the sessions
\* of the other identities are what they were when the callback started.
C7_AnnounceIdempotent ==
    Announced =>
        LET d == msg["annc"].id
        IN  /\ Cardinality({i \in 1..Len(connectedDevices) :
                              connectedDevices[i].key = d}) = 1
            /\ DictGet(connectedDevices, d) = Zero
            /\ Others(connectedDevices, d) = Others(aSnap, d)

\* A second Announce of an identity whose session had samples.
C7_Witness ==
    /\ Announced
    /\ pc["annc"] = "a_release"
    /\ msg["annc"].id \in processed
    /\ DictHas(aSnap, msg["annc"].id)
    /\ DictGet(aSnap, msg["annc"].id)[3] > 0

\* The Data callback handles a frame of an identity no Announce frame named.
Unannounced == msg["data"].len = DataSize /\ msg["data"].id \notin seen

\* C8: a Data frame of a never-announced identity publishes exactly one
\* Reset-request, 7 bytes, to CO2S/conf/<hex of the identity's last 6 bytes>,
\* and its handling changes nothing in the registry.
C8_UnknownDeviceReset ==
    /\ []( Unannounced =>
             /\ ~DictHas(connectedDevices, msg["data"].id)
             /\ pc["data"] \in {"d_check", "d_publish", "d_ret"}
             /\ pc["data"] \in {"d_check", "d_publish"} => io["data"] = <<>>
             /\ pc["data"] = "d_ret" =>
                   /\ Len(io["data"]) = 1
                   /\ io["data"][1].op = "publish"
                   /\ Len(io["data"][1].payload) = 7
                   /\ io["data"][1].topic =
                        <<"CO2S/conf", "/">>
                          \o HexBytes(SubSeq(msg["data"].id, 11, 16)) )
    /\ [][ (Unannounced /\ pc'["data"] # pc["data"])
           => connectedDevices' = connectedDevices ]_vars

\* The Reset-request for D2 is out while D1 has a session.
C8_Witness ==
    /\ Unannounced
    /\ pc["data"] = "d_ret"
    /\ msg["data"].id = D2
    /\ DictHas(connectedDevices, D1)

\* C9: sendUbidotsPayload makes between 1 and 6 POSTs, stops at the first
\* status < 400, and returns True iff the last status is < 400: the number
\* of calls is min(6, index of the first status < 400).
C9_BoundedRetry ==
    /\ pc["main"] = "r_post" => Len(responses) = attempts /\ attempts <= 6
    /\ pc["main"] = "r_reset" =>
          LET n == Len(responses)
          IN  /\ n = attempts
              /\ 1 <= n /\ n <= 6
              /\ \A i \in 1..(n - 1) : responses[i] >= 400
              /\ responses[n] >= 400 => n = 6
              /\ result = IF responses[n] < 400 THEN "True" ELSE "False"

\* Six failing answers: six calls, False.
C9_Witness ==
    /\ pc["main"] = "r_reset"
    /\ responses = <<400, 400, 400, 400, 400, 400>>
    /\ result = "False"

\* C10: no failure of the HTTP forwarding gets past sendUbidotsPayload: it
\* returns a boolean and the reporting loop keeps running.
C10_ForwardNeverRaises ==
    /\ pc["main"] # "r_crashed"
    /\ result \in {"none", "True", "False"}

\* A step of the Announce callback while it handles a payload of a size
\* other than 16 bytes.
MalformedAnnounceStep ==
    /\ pc["annc"] # "idle"
    /\ ~(msg["annc"].len = AnnounceSize)
    /\ pc'["annc"] # pc["annc"]

\* The whole handling of a Data payload of a size other than 20 bytes.
MalformedDataStep == nData' # nData /\ pc'["data"] = "idle"

\* C11: an Announce payload that is not 16 bytes long, or a Data payload that
\* is not 20 bytes long, is discarded: the registry and the configuration
\* store stay as they were, nothing is published or saved, the lock is
\* released and the callback returns, ready for the next message.
C11_MalformedDiscarded ==
    [][ /\ MalformedAnnounceStep =>
             /\ connectedDevices' = connectedDevices
             /\ configData' = configData
             /\ io' = io /\ io["annc"] = <<>>
             /\ pc'["annc"] \in {"a_release", "idle"}
             /\ pc'["annc"] = "idle" => connectedLock' = "free"
        /\ MalformedDataStep =>
             /\ connectedDevices' = connectedDevices
             /\ configData' = configData
             /\ io' = io /\ io["data"] = <<>>
             /\ connectedLock' = connectedLock
       ]_vars

\* A malformed Announce payload about to be dropped while a device is
\* registered.
C11_Witness ==
    /\ pc["annc"] = "a_release"
    /\ msg["annc"].len = DataSize
    /\ Len(connectedDevices) > 0

U16At(f, i) == f[2 * i - 1] + 256 * f[2 * i]

S16At(f, i) == IF U16At(f, i) >= 32768 THEN U16At(f, i) - 65536 ELSE U16At(f, i)

ConfigFields(f) ==
    [measureEachMsec |-> U16At(f, 1), sendAfterMeasures |-> U16At(f, 2),
     greenLEDThreshold |-> U16At(f, 3), yellowLEDThreshold |-> U16At(f, 4),
     orangeLEDThreshold |-> U16At(f, 5), makeBuzzEverySec |-> S16At(f, 6),
     enableLEDEverySec |-> S16At(f, 7)]

\* The Announce callback is handling the first Announce of an identity that
\* had no configuration, and is past sendConfig's generation of it.
FirstAnnounceAt(labels) ==
    /\ pc["annc"] \in labels
    /\ msg["annc"].len = AnnounceSize
    /\ ~DictHas(cSnap, UUIDStr(msg["annc"].id))

\* C13: the first Announce of an identity without configuration generates
\* and saves its configuration exactly once, before the Config frame of that
\* Announce is published; the generated entry is appended with
\* usesGlobalConfig true and config a copy of the global configuration, and
\* the seven fields of the published frame are those of the global
\* configuration.
C13_FirstAnnounceCreatesOnce ==
    /\ FirstAnnounceAt({"a_save"}) => io["annc"] = <<>>
    /\ FirstAnnounceAt({"a_save", "a_publish", "a_release"}) =>
          configData.devices =
              Append(cSnap,
                     [key |-> UUIDStr(msg["annc"].id),
                      val |-> [name |-> <<"Device-", Len(cSnap)>>,
                               usesGlobalConfig |-> TRUE,
                               apiName |-> "XXXX",
                               config |-> configData.globalConf]])
    /\ FirstAnnounceAt({"a_publish", "a_release"}) =>
          LET w == io["annc"]
          IN  /\ Len(w) \in {1, 2}
              /\ w[1].op = "save"
              /\ pc["annc"] = "a_publish" => Len(w) = 1
              /\ Len(w) = 2 =>
                    /\ w[2].op = "publish"
                    /\ w[2].topic = ConfigTopicOf(msg["annc"].id)
                    /\ Len(w[2].payload) = 14
                    /\ ConfigFields(w[2].payload) = configData.globalConf

\* A first Announce whose configuration was saved and then published.
C13_Witness ==
    /\ FirstAnnounceAt({"a_release"})
    /\ Len(io["annc"]) = 2
    /\ io["annc"][1].op = "save"
    /\ io["annc"][2].op = "publish"

\* C14: a Data frame whose callback passed the membership test of line 76
\* before or during a re-announcement of its identity is never added to the
\* session that re-announcement started.
C14_NoStaleSampleFolded ==
    pc["data"] = "d_add" => ~msg["data"].stale

\* A context other than the Announce callback can read connectedDevices now:
\* the Data callback is at the membership test of line 76 or the reporter at
\* the len() of line 248, both made without the lock, or one of them holds
\* the lock.
RegistryObservable ==
    \/ pc["data"] = "d_check"
    \/ pc["main"] = "r_wait"
    \/ connectedLock \in {"data", "main"}

\* C15: once an Announce of an identity has been handled, the identity is in
\* connectedDevices in every later state another context can observe, the
\* states inside a re-announcement of that identity included.
C15_SessionNeverAbsent ==
    RegistryObservable => \A d \in processed : DictHas(connectedDevices, d)

\* The reporter passes line 263 for the session it has just forwarded.
ResetStep == pc["main"] = "r_reset" /\ pc'["main"] = "r_iter"

\* C16: after the reporter has processed a session that had samples, the
\* session is at (0, 0, 0) whether sendUbidotsPayload returned True or False,
\* so the means of a failed forward are dropped; and the means computed at any
\* tick are over exactly the samples recorded since the session's last reset.
C16_FailedForwardDropped ==
    /\ [][ResetStep =>
             /\ result \in {"True", "False"}
             /\ meanOver[3] > 0
             /\ DictGet(connectedDevices', device) = Zero]_vars
    /\ [](pc["main"] \in {"r_post", "r_reset"} =>
             /\ meanOver = window[device]
             /\ meanOver = DictGet(connectedDevices, device))

\* sendUbidotsPayload has returned False after six refused attempts and the
\* reporter is about to reset the session.
C16_Witness ==
    /\ pc["main"] = "r_reset"
    /\ result = "False"
    /\ Len(responses) = 6
    /\ nTicks = 2

\* The Announce callback has handled a well-sized Announce and is about to
\* return.
AnnounceHandled == pc["annc"] = "a_release" /\ msg["annc"].len = AnnounceSize

\* The positions of the publishes among what the Announce callback wrote.
Publishes(w) == {i \in 1..Len(w) : w[i].op = "publish"}

\* The configuration sendConfig uses for the Announce being handled.
EffectiveConf == UseConf(configData, UUIDStr(msg["annc"].id))

\* A value reduced to 16 bits, and the 14 bytes of a configuration whose
\* fields are reduced so.
WrapBytes(v) == <<(v % 65536) % 256, (v % 65536) \div 256>>

WrapPack(c) ==
    WrapBytes(c.measureEachMsec) \o WrapBytes(c.sendAfterMeasures)
      \o WrapBytes(c.greenLEDThreshold) \o WrapBytes(c.yellowLEDThreshold)
      \o WrapBytes(c.orangeLEDThreshold) \o WrapBytes(c.makeBuzzEverySec)
      \o WrapBytes(c.enableLEDEverySec)

\* Every field fits its format: "H" for the first five, "h" for the last two.
InRange(c) ==
    /\ \A v \in {c.measureEachMsec, c.sendAfterMeasures, c.greenLEDThreshold,
                 c.yellowLEDThreshold, c.orangeLEDThreshold} :
           v \in 0..65535
    /\ \A v \in {c.makeBuzzEverySec, c.enableLEDEverySec} : v \in -32768..32767

\* C17 as stated: encoding never fails, so every well-sized Announce is
\* answered by exactly one Config frame of 14 bytes, in which a field outside
\* its 16-bit range appears reduced modulo 2^16.
C17_AlwaysOneConfigFrame ==
    AnnounceHandled =>
        /\ Cardinality(Publishes(io["annc"])) = 1
        /\ \A i \in Publishes(io["annc"]) :
               /\ Len(io["annc"][i].payload) = 14
               /\ io["annc"][i].payload = WrapPack(EffectiveConf)

\* C17, amended: packing raises when a field is outside its 16-bit range and
\* the publish is then skipped, so a well-sized Announce is answered by
\* exactly one Config frame of 14 bytes carrying the fields unchanged when all
\* fields of the configuration in use are in range, and by none otherwise.
C17_ConfigFrameIffInRange ==
    AnnounceHandled =>
        IF InRange(EffectiveConf)
        THEN /\ Cardinality(Publishes(io["annc"])) = 1
             /\ \A i \in Publishes(io["annc"]) :
                    /\ io["annc"][i].topic = ConfigTopicOf(msg["annc"].id)
                    /\ Len(io["annc"][i].payload) = 14
                    /\ ConfigFields(io["annc"][i].payload) = EffectiveConf
        ELSE Publishes(io["annc"]) = {}

\* An Announce handled under a configuration with a period of 70000 ms: the
\* configuration was saved and no frame published.
C17_Witness ==
    /\ AnnounceHandled
    /\ ~InRange(EffectiveConf)
    /\ EffectiveConf.measureEachMsec = 70000
    /\ Len(io["annc"]) = 1
    /\ Publishes(io["annc"]) = {}

\* The Announce callback is handling a well-sized Announce of an identity
\* that had a configuration entry when the callback locked.
AnnounceOfConfigured ==
    /\ pc["annc"] \in {"a_del", "a_init", "a_conf", "a_save", "a_publish",
                       "a_release"}
    /\ msg["annc"].len = AnnounceSize
    /\ DictHas(cSnap, UUIDStr(msg["annc"].id))

\* C18: a device's configuration entry is created at most once and never
\* changed afterwards. The only step that changes configData is sendConfig's
\* generation for an identity without entry, which appends one entry and
\* leaves the others and the global section as they are; an Announce of an
\* identity that has an entry leaves configData["devices"] as it was and
\* saves nothing; Data frames and ticks never change configData.
C18_ConfigCreatedOnce ==
    /\ [][configData' # configData =>
            LET uuidStr == UUIDStr(msg["annc"].id)
                n == Len(configData.devices)
            IN  /\ pc["annc"] = "a_conf" /\ pc'["annc"] = "a_save"
                /\ ~DictHas(configData.devices, uuidStr)
                /\ configData'.globalConf = configData.globalConf
                /\ Len(configData'.devices) = n + 1
                /\ SubSeq(configData'.devices, 1, n) = configData.devices
                /\ configData'.devices[n + 1].key = uuidStr]_vars
    /\ [](AnnounceOfConfigured =>
            /\ configData.devices = cSnap
            /\ \A i \in 1..Len(io["annc"]) : io["annc"][i].op # "save")

\* A second Announce of a registered, configured identity, answered with a
\* Config frame and nothing saved.
C18_Witness ==
    /\ AnnounceOfConfigured
    /\ pc["annc"] = "a_release"
    /\ DictHas(aSnap, msg["annc"].id)
    /\ Len(io["annc"]) = 1
    /\ io["annc"][1].op = "publish"

\* Some callback or the reporting loop is in the middle of its work.
Busy == pc["annc"] # "idle" \/ pc["data"] # "idle" \/ pc["main"] # "r_wait"

\* The context holding connectedLock is inside its "with connectedLock:".
HolderAtWork ==
    /\ connectedLock = "annc" => pc["annc"] \notin {"idle", "a_lock"}
    /\ connectedLock = "data" => pc["data"] = "d_add"
    /\ connectedLock = "main" => pc["main"] \in {"r_iter", "r_post", "r_reset"}

\* C19: nothing blocks for ever when the threads are scheduled fairly and
\* every HTTP request is answered. Every callback and every tick of the
\* reporter, also one that has to wait for connectedLock, runs to its end,
\* and the lock is held only by a context inside its critical section, so
\* every acquisition is followed by the release; sendUbidotsPayload makes at
\* most six attempts; and while any context is at work some step is possible.
C19_NothingBlocksForever ==
    /\ (pc["annc"] # "idle") ~> (pc["annc"] = "idle")
    /\ (pc["data"] # "idle") ~> (pc["data"] = "idle")
    /\ (pc["main"] # "r_wait") ~> (pc["main"] = "r_wait")
    /\ [](HolderAtWork)
    /\ [](attempts <= LastRetryIndex + 1 /\ Len(responses) <= LastRetryIndex + 1)
    /\ [](Busy => ENABLED ProgramStep)

\* The three contexts at once: the Announce callback holds the lock while
\* the Data callback and the reporter wait for it.
C19_Witness ==
    /\ connectedLock = "annc"
    /\ pc["data"] = "d_lock"
    /\ pc["main"] = "r_lock"

\* The Data callback records the frame it is handling (lines 84-86).
FoldStep(d) ==
    /\ pc["data"] = "d_add" /\ pc'["data"] = "idle"
    /\ msg["data"].id = d

\* C20: for every session, times >= 0, and times = 0 implies both sums are 0;
\* times is the number of Data frames recorded in the session since its last
\* reset (by an Announce or by the reporter) and the sums are the sums of
\* those frames' values: recording a frame adds its CO2 and temperature to
\* the sums and one to times, and every other change of a session is a reset
\* to (0, 0, 0).
C20_AccumulatorInvariant ==
    /\ [](\A i \in 1..Len(connectedDevices) :
             LET acc == connectedDevices[i].val
             IN  /\ acc[3] >= 0
                 /\ acc[3] = 0 => acc[1] = 0 /\ acc[2] = 0
                 /\ acc[3] = window[connectedDevices[i].key][3]
                 /\ acc[1] = window[connectedDevices[i].key][1]
                 /\ acc[2] = window[connectedDevices[i].key][2])
    /\ [][\A d \in Devices :
             ( /\ DictHas(connectedDevices', d)
               /\ ~( /\ DictHas(connectedDevices, d)
                     /\ DictGet(connectedDevices', d)
                          = DictGet(connectedDevices, d) ) )
             => IF FoldStep(d)
                THEN LET old == DictGet(connectedDevices, d)
                     IN  DictGet(connectedDevices', d) =
                             <<old[1] + msg["data"].co2,
                               old[2] + msg["data"].temp, old[3] + 1>>
                ELSE DictGet(connectedDevices', d) = Zero]_vars

\* A session in which two frames were recorded, with negative sums.
C20_Witness ==
    \E i \in 1..Len(connectedDevices) :
        /\ connectedDevices[i].val[3] = 2
        /\ connectedDevices[i].val[1] < 0
        /\ window[connectedDevices[i].key] = connectedDevices[i].val

====
